---------------------------- MODULE Spec2Model ----------------------------
(***************************************************************************)
(* Model of get_weather.py: the Measurements aggregate (add_temp,          *)
(* min_temp, max_temp, to_json) and the get_weather command that feeds it  *)
(* from an HTTP response and saves the resulting document.                 *)
(*                                                                         *)
(* Temperatures are exact fixed-point numbers in thousandths of a degree;  *)
(* the "temp" of a forecast_details entry, which the code rounds to two    *)
(* decimal places, is in hundredths of a degree.  Dates are day numbers,   *)
(* so that calendar order is numeric order.                                *)
(***************************************************************************)
EXTENDS Integers, Sequences, FiniteSets, TLC

\* Bounds of the model.
NumDays == 2
MaxAdds == 3
MaxJson == 2
MaxList == 2

\* Input domains.
Days == 1..NumDays
Temps == {-15, 4}
Times == {"09:00:00", "21:00:00"}
Cities == {"Paris"}
Countries == {"FR"}

VARIABLES
    forecast,            \* self._forecast: insertion-ordered dict, a sequence of [date, temps]
    forecast_location,   \* self.forecast_location
    forecast_min_temp,   \* self.forecast_min_temp
    forecast_max_temp,   \* self.forecast_max_temp
    forecast_details,    \* self.forecast_details
    call,                \* the last call made on the Measurements object
    ret,                 \* what that call returned or raised
    njson,               \* number of to_json() calls made so far
    pc,                  \* position of get_weather ("obj": the object is driven directly)
    city, country,       \* the command's arguments
    keyFile,             \* whether api_key.txt exists
    response,            \* the HTTP response (status_code and json body)
    nreq,                \* number of HTTP requests issued
    idx,                 \* position of the loop over data["list"]
    json_data,           \* the local json_data of get_weather
    outDir,              \* whether the directory out/ exists
    outFile,             \* content of out/<city>(<country>)_<today>.json
    fsOk,                \* whether the file system lets the process create and write
    logs,                \* the records handed to the logger
    exitCode             \* the exit code of the process, once pc = "done"

objVars == <<forecast, forecast_location, forecast_min_temp, forecast_max_temp,
             forecast_details, call, ret, njson>>
runVars == <<pc, city, country, keyFile, response, nreq, idx, json_data,
             outDir, outFile, fsOk, logs, exitCode>>
vars == <<forecast, forecast_location, forecast_min_temp, forecast_max_temp,
          forecast_details, call, ret, njson, pc, city, country, keyFile,
          response, nreq, idx, json_data, outDir, outFile, fsOk, logs, exitCode>>

---------------------------------------------------------------------------
\* Values returned or raised by a call.
NoCall == [op |-> "none", date |-> 0, temp |-> 0]
None == [kind |-> "none", val |-> 0]
Value(v) == [kind |-> "value", val |-> v]
Raise(e) == [kind |-> "raise", val |-> e]
Doc(d) == [kind |-> "doc", val |-> d]

\* f"{town}({country})"
Location(town, ctry) == <<town, "(", ctry, ")">>

\* Python's builtins min, max and sum on a non-empty list.
RECURSIVE PyMin(_)
PyMin(s) ==
    IF Len(s) = 1 THEN s[1]
    ELSE LET m == PyMin(Tail(s)) IN IF s[1] <= m THEN s[1] ELSE m

RECURSIVE PyMax(_)
PyMax(s) ==
    IF Len(s) = 1 THEN s[1]
    ELSE LET m == PyMax(Tail(s)) IN IF s[1] >= m THEN s[1] ELSE m

RECURSIVE PySum(_)
PySum(s) == IF s = <<>> THEN 0 ELSE s[1] + PySum(Tail(s))

\* round(total/n, 2) for total in thousandths, the result in hundredths.
\* A value that lies exactly halfway between two hundredths has no exact
\* binary representation in general, so either neighbour can come out;
\* "up" is the side the floating-point value falls on.
PyRound2(total, n, up) ==
    LET q == total \div (10 * n)
        r == total - q * (10 * n)
    IN  IF 2 * r < 10 * n THEN q
        ELSE IF 2 * r > 10 * n THEN q + 1
        ELSE IF up THEN q + 1 ELSE q

---------------------------------------------------------------------------
\* The dict self._forecast.
HasKey(f, date) == \E i \in 1..Len(f) : f[i].date = date
IndexOf(f, date) == CHOOSE i \in 1..Len(f) : f[i].date = date

\* Measurements.add_temp: the dict after the call.
add_temp_prepend(f, date, temp) ==
    IF HasKey(f, date)
    THEN [f EXCEPT ![IndexOf(f, date)].temps = <<temp>> \o @]
    ELSE Append(f, [date |-> date, temps |-> <<temp>>])

add_temp(f, date, temp) ==
    IF HasKey(f, date)
    THEN [f EXCEPT ![IndexOf(f, date)].temps = Append(@, temp)]
    ELSE Append(f, [date |-> date, temps |-> <<temp>>])

\* Measurements.min_temp / max_temp: min() and max() of an empty list raise
\* ValueError.
min_temp_of_max(f) ==
    IF f = <<>> THEN Raise("ValueError")
    ELSE Value(PyMin([i \in 1..Len(f) |-> PyMax(f[i].temps)]))

min_temp_sentinel(f) ==
    IF f = <<>> THEN Value(0)
    ELSE Value(PyMin([i \in 1..Len(f) |-> PyMin(f[i].temps)]))

min_temp(f) ==
    IF f = <<>> THEN Raise("ValueError")
    ELSE Value(PyMin([i \in 1..Len(f) |-> PyMin(f[i].temps)]))

max_temp(f) ==
    IF f = <<>> THEN Raise("ValueError")
    ELSE Value(PyMax([i \in 1..Len(f) |-> PyMax(f[i].temps)]))

\* The entries the loop of to_json appends: one per item of
\* list(self._forecast.items())[1:].
DayEntry(e, ups) ==
    [date |-> e.date,
     temp |-> PyRound2(PySum(e.temps), Len(e.temps), e.date \in ups),
     measure_count |-> Len(e.temps)]

NewDetailsNoSkip(f, ups) == [i \in 1..Len(f) |-> DayEntry(f[i], ups)]

NewDetails(f, ups) == [i \in 1..(Len(f) - 1) |-> DayEntry(f[i + 1], ups)]

\* The days whose average lies exactly halfway between two hundredths: the
\* only ones whose rounding depends on the floating-point representation.
HalfwayDays(f) ==
    {f[i].date : i \in {j \in 1..Len(f) :
        (2 * PySum(f[j].temps)) % (20 * Len(f[j].temps)) = 10 * Len(f[j].temps)}}

---------------------------------------------------------------------------
\* The calls on the Measurements object, as actions on its fields.

\* Measurements.__init__
Construct(town, ctry) ==
    /\ forecast' = <<>>
    /\ forecast_location' = Location(town, ctry)
    /\ forecast_min_temp' = 0
    /\ forecast_max_temp' = 0
    /\ forecast_details' = <<>>

AddTempCall(date, temp) ==
    /\ forecast' = add_temp(forecast, date, temp)
    /\ call' = [op |-> "add_temp", date |-> date, temp |-> temp]
    /\ ret' = None
    /\ UNCHANGED <<forecast_location, forecast_min_temp, forecast_max_temp,
                   forecast_details, njson>>

MinTempCall ==
    /\ call' = [op |-> "min_temp", date |-> 0, temp |-> 0]
    /\ ret' = min_temp(forecast)
    /\ UNCHANGED <<forecast, forecast_location, forecast_min_temp,
                   forecast_max_temp, forecast_details, njson>>

MaxTempCall ==
    /\ call' = [op |-> "max_temp", date |-> 0, temp |-> 0]
    /\ ret' = max_temp(forecast)
    /\ UNCHANGED <<forecast, forecast_location, forecast_min_temp,
                   forecast_max_temp, forecast_details, njson>>

\* Measurements.to_json: the two assignments, the loop, json.dumps.
ToJsonCall(ups) ==
    LET mn == min_temp(forecast)
        mx == max_temp(forecast)
        details == forecast_details \o NewDetails(forecast, ups)
    IN  /\ call' = [op |-> "to_json", date |-> 0, temp |-> 0]
        /\ njson' = njson + 1
        /\ UNCHANGED <<forecast, forecast_location>>
        /\ IF mn.kind = "raise"
           THEN /\ ret' = mn
                /\ UNCHANGED <<forecast_min_temp, forecast_max_temp, forecast_details>>
           ELSE IF mx.kind = "raise"
           THEN /\ forecast_min_temp' = mn.val
                /\ ret' = mx
                /\ UNCHANGED <<forecast_max_temp, forecast_details>>
           ELSE /\ forecast_min_temp' = mn.val
                /\ forecast_max_temp' = mx.val
                /\ forecast_details' = details
                /\ ret' = Doc([forecast_location |-> forecast_location,
                               forecast_min_temp |-> mn.val,
                               forecast_max_temp |-> mx.val,
                               forecast_details |-> details])

---------------------------------------------------------------------------
\* Number of samples held by the dict.
RECURSIVE TotalSamples(_)
TotalSamples(f) == IF f = <<>> THEN 0 ELSE Len(f[1].temps) + TotalSamples(Tail(f))

NoResponse == [status_code |-> 0, data |-> [list |-> <<>>, message |-> ""]]

\* The object driven directly by a caller: any sequence of calls.
InitObj ==
    /\ pc = "obj"
    /\ city \in Cities
    /\ country \in Countries
    /\ forecast = <<>>
    /\ forecast_location = Location(city, country)
    /\ forecast_min_temp = 0
    /\ forecast_max_temp = 0
    /\ forecast_details = <<>>
    /\ call = NoCall
    /\ ret = None
    /\ njson = 0
    /\ keyFile = TRUE
    /\ response = NoResponse
    /\ nreq = 0
    /\ idx = 1
    /\ json_data = None
    /\ outDir = TRUE
    /\ outFile = "absent"
    /\ fsOk = TRUE
    /\ logs = <<>>
    /\ exitCode = 0

AddTemp ==
    /\ pc = "obj"
    /\ TotalSamples(forecast) < MaxAdds
    /\ \E date \in Days, temp \in Temps : AddTempCall(date, temp)
    /\ UNCHANGED runVars

ReadMinTemp ==
    /\ pc = "obj"
    /\ MinTempCall
    /\ UNCHANGED runVars

ReadMaxTemp ==
    /\ pc = "obj"
    /\ MaxTempCall
    /\ UNCHANGED runVars

ToJson ==
    /\ pc = "obj"
    /\ njson < MaxJson
    /\ \E ups \in SUBSET HalfwayDays(forecast) : ToJsonCall(ups)
    /\ UNCHANGED runVars

NextObj == AddTemp \/ ReadMinTemp \/ ReadMaxTemp \/ ToJson

SpecObj == InitObj /\ [][NextObj]_vars

---------------------------------------------------------------------------
\* The get_weather command.

\* The responses of the forecast endpoint: a 200 response carries a
\* non-empty list of measurements, any other one an error message.
Measurement == [dt_txt : Days \X Times, main : [temp : Temps]]

Lists == UNION {[1..n -> Measurement] : n \in 1..MaxList}

OkResponses ==
    {[status_code |-> 200, data |-> [list |-> l, message |-> ""]] : l \in Lists}

ErrorResponses ==
    {[status_code |-> 401, data |-> [list |-> <<>>, message |-> "Invalid API key"]],
     [status_code |-> 404, data |-> [list |-> <<>>, message |-> "city not found"]]}

\* mesurement["dt_txt"].split(" ")[0]
SplitDate(dt_txt) == dt_txt[1]

\* response.status_code == 200
StatusOkNot404(r) == r.status_code # 404

StatusOk(r) == r.status_code = 200

Log(level, msg) == logs' = Append(logs, <<level, msg>>)
Log2(l1, m1, l2, m2) == logs' = logs \o << <<l1, m1>>, <<l2, m2>> >>

InitRun ==
    /\ pc = "read_key"
    /\ city \in Cities
    /\ country \in Countries
    /\ forecast = <<>>
    /\ forecast_location = <<>>
    /\ forecast_min_temp = 0
    /\ forecast_max_temp = 0
    /\ forecast_details = <<>>
    /\ call = NoCall
    /\ ret = None
    /\ njson = 0
    /\ keyFile \in BOOLEAN
    /\ response = NoResponse
    /\ nreq = 0
    /\ idx = 1
    /\ json_data = None
    /\ outDir \in BOOLEAN
    /\ outFile \in IF outDir THEN {"absent", "old"} ELSE {"absent"}
    /\ fsOk \in BOOLEAN
    /\ logs = <<>>
    /\ exitCode = 0

\* API_KEY = open("api_key.txt").read(), or exit(1)
ReadApiKeyNoExit ==
    /\ pc = "read_key"
    /\ IF keyFile
       THEN Log("SUCCESS", "Reading API key from api_key.txt")
       ELSE Log("ERROR", "api_key.txt not found")
    /\ pc' = "construct"
    /\ UNCHANGED <<exitCode>>
    /\ UNCHANGED <<city, country, keyFile, response, nreq, idx, json_data,
                   outDir, outFile, fsOk>>
    /\ UNCHANGED objVars

ReadApiKey ==
    /\ pc = "read_key"
    /\ IF keyFile
       THEN /\ Log("SUCCESS", "Reading API key from api_key.txt")
            /\ pc' = "construct"
            /\ UNCHANGED exitCode
       ELSE /\ Log("ERROR", "api_key.txt not found")
            /\ pc' = "done"
            /\ exitCode' = 1
    /\ UNCHANGED <<city, country, keyFile, response, nreq, idx, json_data,
                   outDir, outFile, fsOk>>
    /\ UNCHANGED objVars

\* measure = Measurements(city, country)
CreateMeasure ==
    /\ pc = "construct"
    /\ Construct(city, country)
    /\ pc' = "request"
    /\ UNCHANGED <<call, ret, njson>>
    /\ UNCHANGED <<city, country, keyFile, response, nreq, idx, json_data,
                   outDir, outFile, fsOk, logs, exitCode>>

\* response = requests.get(url); data = response.json()
Request ==
    /\ pc = "request"
    /\ \E r \in OkResponses \cup ErrorResponses : response' = r
    /\ nreq' = nreq + 1
    /\ pc' = "check"
    /\ UNCHANGED <<city, country, keyFile, idx, json_data, outDir, outFile,
                   fsOk, logs, exitCode>>
    /\ UNCHANGED objVars

\* if response.status_code == 200: ... else: log the upstream message, return
CheckStatus ==
    /\ pc = "check"
    /\ IF StatusOk(response)
       THEN /\ Log("SUCCESS", "Data fetched successfully")
            /\ idx' = 1
            /\ pc' = "feed"
            /\ UNCHANGED exitCode
       ELSE /\ Log2("ERROR", "Failed to fetch data", "ERROR", response.data.message)
            /\ pc' = "done"
            /\ exitCode' = 0
            /\ UNCHANGED idx
    /\ UNCHANGED <<city, country, keyFile, response, nreq, json_data, outDir,
                   outFile, fsOk>>
    /\ UNCHANGED objVars

\* One iteration of: for mesurement in data["list"]
Feed ==
    /\ pc = "feed"
    /\ idx <= Len(response.data.list)
    /\ LET m == response.data.list[idx]
       IN  AddTempCall(SplitDate(m.dt_txt), m.main.temp)
    /\ idx' = idx + 1
    /\ UNCHANGED <<pc, city, country, keyFile, response, nreq, json_data,
                   outDir, outFile, fsOk, logs, exitCode>>

\* json_data = measure.to_json(), once the loop is over; an exception raised
\* here is caught by nothing and ends the process.
Finalize ==
    /\ pc = "feed"
    /\ idx > Len(response.data.list)
    /\ \E ups \in SUBSET HalfwayDays(forecast) : ToJsonCall(ups)
    /\ IF ret'.kind = "doc"
       THEN /\ json_data' = ret'
            /\ pc' = "save"
            /\ UNCHANGED exitCode
       ELSE /\ pc' = "done"
            /\ exitCode' = 1
            /\ UNCHANGED json_data
    /\ UNCHANGED <<city, country, keyFile, response, nreq, idx, outDir,
                   outFile, fsOk, logs>>

\* The try block that writes json_data to out/<city>(<country>)_<today>.json
Save ==
    /\ pc = "save"
    /\ IF outDir
       THEN LET warned == IF outFile # "absent"
                          THEN << <<"WARNING", "File already exists, it will be overwritten">> >>
                          ELSE <<>>
            IN  IF fsOk
                THEN /\ outFile' = json_data.val
                     /\ logs' = logs \o warned \o << <<"SUCCESS", "Data saved successfully">> >>
                     /\ UNCHANGED outDir
                ELSE /\ logs' = logs \o warned \o
                                << <<"ERROR", "Failed to save data">>, <<"ERROR", "e">> >>
                     /\ UNCHANGED <<outDir, outFile>>
       ELSE IF fsOk
            THEN /\ outDir' = TRUE
                 /\ outFile' = json_data.val
                 /\ Log2("WARNING", "/out directory created",
                         "SUCCESS", "Data saved successfully")
            ELSE /\ Log2("ERROR", "Failed to save data", "ERROR", "e")
                 /\ UNCHANGED <<outDir, outFile>>
    /\ pc' = "done"
    /\ exitCode' = 0
    /\ UNCHANGED <<city, country, keyFile, response, nreq, idx, json_data, fsOk>>
    /\ UNCHANGED objVars

NextRun ==
    \/ ReadApiKey
    \/ CreateMeasure
    \/ Request
    \/ CheckStatus
    \/ Feed
    \/ Finalize
    \/ Save

SpecRun == InitRun /\ [][NextRun]_vars

---------------------------------------------------------------------------
\* Vocabulary of the properties.

\* The day-keys of the dict, in iteration order.
Keys(f) == [i \in 1..Len(f) |-> f[i].date]
KeySet(f) == {f[i].date : i \in 1..Len(f)}
\* The samples of a day-key that is present.
TempsOf(f, d) == f[CHOOSE i \in 1..Len(f) : f[i].date = d].temps
SamplesOfEntry(e) == {e.temps[j] : j \in 1..Len(e.temps)}
AllSamples(f) == UNION {SamplesOfEntry(f[i]) : i \in 1..Len(f)}
IsLeast(v, S) == v \in S /\ \A s \in S : v <= s
IsGreatest(v, S) == v \in S /\ \A s \in S : s <= v
DatesOf(details) == [i \in 1..Len(details) |-> details[i].date]
\* c hundredths is total/n thousandths rounded to two decimal places.
IsRounded(c, total, n) ==
    /\ 2 * (10 * n * c - total) <= 10 * n
    /\ 2 * (total - 10 * n * c) <= 10 * n
Logged(level, msg) == \E i \in 1..Len(logs) : logs[i] = <<level, msg>>

\* C1: two consecutive to_json() calls with no add_temp() in between return
\* identical documents.
C1_ToJsonIdempotent ==
    [][(call.op = "to_json" /\ ret.kind = "doc" /\ call'.op = "to_json")
         => ret' = ret]_vars

\* C2: the dates of the forecast_details entries of the document returned by
\* to_json() are the day-keys in first-insertion order, the first one removed.
C2_DetailsDatesAreKeysButFirst ==
    ret.kind = "doc" => DatesOf(ret.val.forecast_details) = Tail(Keys(forecast))

\* C3: min_temp <= every sample <= max_temp, both are raw samples, and the
\* document of to_json() carries the same two values, the samples of the
\* first-inserted day included.
C3_MinMaxBracketSamples ==
    /\ (call.op = "min_temp" /\ forecast # <<>>)
         => ret.kind = "value" /\ IsLeast(ret.val, AllSamples(forecast))
    /\ (call.op = "max_temp" /\ forecast # <<>>)
         => ret.kind = "value" /\ IsGreatest(ret.val, AllSamples(forecast))
    /\ ret.kind = "doc"
         => /\ IsLeast(ret.val.forecast_min_temp, AllSamples(forecast))
            /\ IsGreatest(ret.val.forecast_max_temp, AllSamples(forecast))
            /\ \A s \in SamplesOfEntry(forecast[1]) :
                  /\ ret.val.forecast_min_temp <= s
                  /\ s <= ret.val.forecast_max_temp

\* The first-inserted day, absent from forecast_details, alone holds the
\* minimum that the document reports.
C3_Witness ==
    /\ ret.kind = "doc"
    /\ Len(forecast) >= 2
    /\ ret.val.forecast_min_temp \in SamplesOfEntry(forecast[1])
    /\ \A i \in 2..Len(forecast) :
          ret.val.forecast_min_temp \notin SamplesOfEntry(forecast[i])
    /\ \A i \in 1..Len(ret.val.forecast_details) :
          ret.val.forecast_details[i].date # forecast[1].date

\* C4: with no sample added, min_temp, max_temp and to_json() raise an error;
\* none returns a value, to_json() returns no document, and the stored
\* minimum and maximum keep their initial 0.
C4_EmptyRaises ==
    (forecast = <<>> /\ call.op \in {"min_temp", "max_temp", "to_json"})
      => /\ ret = Raise("ValueError")
         /\ forecast_min_temp = 0
         /\ forecast_max_temp = 0
         /\ forecast_details = <<>>

C4_Witness == forecast = <<>> /\ call.op = "to_json" /\ ret.kind = "raise"

\* C5: add_temp(date, temp) on a new day-key appends the key with the
\* sequence [temp]; on a present one it keeps the keys and appends temp to
\* that day's sequence; the other days' sequences and the order of the
\* existing keys do not change.
C5_AddTempFrame ==
    [][call'.op = "add_temp" =>
         LET d == call'.date
             t == call'.temp
         IN  /\ IF d \in KeySet(forecast)
                THEN /\ Keys(forecast') = Keys(forecast)
                     /\ Len(forecast') = Len(forecast)
                     /\ TempsOf(forecast', d) = Append(TempsOf(forecast, d), t)
                     /\ Len(TempsOf(forecast', d)) = Len(TempsOf(forecast, d)) + 1
                ELSE /\ Keys(forecast') = Append(Keys(forecast), d)
                     /\ Len(forecast') = Len(forecast) + 1
                     /\ TempsOf(forecast', d) = <<t>>
             /\ \A k \in KeySet(forecast) \ {d} :
                   TempsOf(forecast', k) = TempsOf(forecast, k)]_vars

\* A day that is not the first one has just received a second, different
\* sample, and another day holds a duplicate.
C5_Witness ==
    /\ call.op = "add_temp"
    /\ Len(forecast) >= 2
    /\ call.date = forecast[2].date
    /\ Len(forecast[2].temps) = 2
    /\ forecast[2].temps[1] # forecast[2].temps[2]

\* C6: with a single day-key, to_json() returns a document with an empty
\* forecast_details and with the minimum and maximum of that day's samples.
C6_SingleDay ==
    (ret.kind = "doc" /\ Len(forecast) = 1)
      => /\ ret.val.forecast_details = <<>>
         /\ IsLeast(ret.val.forecast_min_temp, SamplesOfEntry(forecast[1]))
         /\ IsGreatest(ret.val.forecast_max_temp, SamplesOfEntry(forecast[1]))

C6_Witness ==
    /\ ret.kind = "doc"
    /\ Len(forecast) = 1
    /\ Len(forecast[1].temps) >= 2
    /\ ret.val.forecast_min_temp < ret.val.forecast_max_temp

\* C7: in the document returned by to_json(), every day-key but the
\* first-inserted one has an entry, and an entry of that day has
\* measure_count equal to the number of samples of the day and temp equal to
\* their average rounded to two decimal places.
C7_EntriesMatchSamples ==
    ret.kind = "doc" =>
      \A i \in 2..Len(forecast) :
         /\ \E j \in 1..Len(ret.val.forecast_details) :
               ret.val.forecast_details[j].date = forecast[i].date
         /\ \A j \in 1..Len(ret.val.forecast_details) :
               ret.val.forecast_details[j].date = forecast[i].date
                 => /\ ret.val.forecast_details[j].measure_count = Len(forecast[i].temps)
                    /\ IsRounded(ret.val.forecast_details[j].temp,
                                 PySum(forecast[i].temps), Len(forecast[i].temps))

\* C8: after a response whose status is not 200 the upstream message is
\* logged and the run ends with no add_temp(), no to_json() and no file
\* written; add_temp() and to_json() are called only once a 200 response has
\* been observed, and to_json() only when every sample has been added.
C8_AggregatorOnlyAfter200 ==
    /\ (pc = "done" /\ nreq > 0 /\ response.status_code # 200)
         => /\ Logged("ERROR", response.data.message)
            /\ call = NoCall
            /\ forecast = <<>>
            /\ njson = 0
            /\ json_data = None
            /\ outFile \in {"absent", "old"}
    /\ call.op # "none"
         => /\ response.status_code = 200
            /\ pc \in {"feed", "save", "done"}
    /\ njson > 0
         => /\ idx = Len(response.data.list) + 1
            /\ TotalSamples(forecast) = Len(response.data.list)

C8_Witness ==
    /\ pc = "done"
    /\ response.status_code = 404
    /\ Logged("ERROR", "city not found")
    /\ call = NoCall

C10_OnlyInsertionMutates ==
    [][/\ call'.op \in {"to_json", "min_temp", "max_temp"}
          => /\ forecast' = forecast
             /\ forecast_location' = forecast_location
             /\ forecast_details' = forecast_details
       /\ \A i \in 1..Len(forecast') : Len(forecast'[i].temps) >= 1
       /\ \A i, j \in 1..Len(forecast_details') :
             forecast_details'[i].date = forecast_details'[j].date => i = j]_vars

===========================================================================
